---- MODULE Spec2Model ----
(***************************************************************************)
(* Model of app.py, the Marathwada drought comparison dashboard.           *)
(*                                                                         *)
(* State: the table df loaded once from main_data.csv, and for every       *)
(* request thread of the server the run of the callback                    *)
(* update_dashboard(year_left, year_right) it holds (`runs`): the run's    *)
(* position, its arguments, the network fetches and logger.error           *)
(* diagnostics it has performed so far and, once it has ended, its         *)
(* outcome.  A run waits for the network in urlopen/response.read(), once  *)
(* per image; runs of different threads interleave at these waits.         *)
(*                                                                         *)
(* Numbers: a category value v is held as the integer 4*v (quarters), so   *)
(* every value is an exact binary float; a formatted value f'{v:.1f}' is   *)
(* held as the integer 10 * (the decimal printed), i.e. in tenths.         *)
(***************************************************************************)
EXTENDS Integers, Sequences, FiniteSets

VARIABLES df, runs

vars == <<df, runs>>

\* ---------------------------------------------------------------- bounds
MaxYear == 2
MaxRows == 2

\* The request threads of the server (app.run serves each request in a
\* thread of its own).
Threads == {"t1", "t2"}

\* Python's None as a callback argument (a dropdown with nothing selected).
\* Year keys are naturals, so -1 is no key of any table.
None == 0 - 1

YearKeys == 0..MaxYear

\* What one urlopen(url)/response.read() can do: raise, or deliver bytes.
Payloads == {"img_a"}
NetOutcomes == {"fail"} \cup Payloads

\* The 'Map Images Left' cells of the table, by row position.
Urls == <<"http://maps/a.jpg", "http://maps/b.jpg", "http://maps/c.jpg">>

\* ---------------------------------------------------------- static data
\* The six value columns of main_data.csv.
Categories ==
    {"Extreme_Drought", "Severe_Drought", "Moderate_Drought",
     "Extremely_Wet", "Moderately_Wet", "Near_Normal"}

\* colors (module level dict)
colors ==
    [c \in Categories |->
        CASE c = "Near_Normal"      -> "#90EE90"
          [] c = "Moderately_Wet"   -> "#4169E1"
          [] c = "Extremely_Wet"    -> "#0000FF"
          [] c = "Moderate_Drought" -> "#FFA500"
          [] c = "Severe_Drought"   -> "#FF4500"
          [] c = "Extreme_Drought"  -> "#8B0000"]

\* icons (dict local to create_metric_card), glyphs written by name
icons ==
    [c \in Categories |->
        CASE c = "Extreme_Drought"  -> "sun"
          [] c = "Extremely_Wet"    -> "droplet"
          [] c = "Moderate_Drought" -> "sun_small_cloud"
          [] c = "Moderately_Wet"   -> "cloud_rain"
          [] c = "Near_Normal"      -> "herb"
          [] c = "Severe_Drought"   -> "fire"]

\* category.replace('_', ' ') on the six column names
ReplaceUnderscore(category) ==
    CASE category = "Extreme_Drought"  -> "Extreme Drought"
      [] category = "Severe_Drought"   -> "Severe Drought"
      [] category = "Moderate_Drought" -> "Moderate Drought"
      [] category = "Extremely_Wet"    -> "Extremely Wet"
      [] category = "Moderately_Wet"   -> "Moderately Wet"
      [] category = "Near_Normal"      -> "Near Normal"

\* ------------------------------------------------------- pure functions
\* f'{value:.1f}' for value = q/4: the decimal with one fractional digit
\* nearest to q/4, an exact tie going to the even digit.  Result in tenths.
FormatOneDecimal(q) ==
    IF (5 * q) % 2 = 0
    THEN (5 * q) \div 2
    ELSE LET k == (5 * q - 1) \div 2
         IN  IF k % 2 = 0 THEN k ELSE k + 1

\* base64.b64encode(img_data).decode() on the payloads of the model
B64Encode(img_data) ==
    CASE img_data = "img_a" -> "aW1nX2E="

\* The literal data URI returned by the except branch of get_image_base64.
FallbackImage ==
    [mime |-> "image/png",
     data |-> "iVBORw0KGgoAAAANSUhEUgAAAAEAAAABCAYAAAAfFcSJAAAADUlEQVR42mNkYPhfDwAChwGA60e6kgAAAABJRU5ErkJggg=="]

\* Variant of get_image_base64 that tries the fetch a second time before it
\* falls back.
get_image_base64_retry(url, net) ==
    IF net = "fail"
    THEN [src    |-> FallbackImage,
          events |-> <<[ev |-> "fetch", url |-> url, got |-> net],
                       [ev |-> "fetch", url |-> url, got |-> net],
                       [ev |-> "error", url |-> url]>>]
    ELSE [src    |-> [mime |-> "image/jpeg", data |-> B64Encode(net)],
          events |-> <<[ev |-> "fetch", url |-> url, got |-> net]>>]

\* get_image_base64(url), with the network's answer `net` made explicit.
\* Returns the data URI and the events of the call: one urlopen attempt,
\* followed by one logger.error when the attempt raised.
get_image_base64(url, net) ==
    IF net = "fail"
    THEN [src    |-> FallbackImage,
          events |-> <<[ev |-> "fetch", url |-> url, got |-> net],
                       [ev |-> "error", url |-> url]>>]
    ELSE [src    |-> [mime |-> "image/jpeg", data |-> B64Encode(net)],
          events |-> <<[ev |-> "fetch", url |-> url, got |-> net]>>]

\* categories (list local to create_pie_chart)
categories ==
    <<"Extreme_Drought", "Severe_Drought", "Moderate_Drought",
      "Extremely_Wet", "Moderately_Wet", "Near_Normal">>

\* Variant of Iloc0 that reads the last row, as .iloc[-1] would.
Iloc0_last(year_data, col) == year_data[Len(year_data)][col]

\* series[col].iloc[0] on a filtered frame: the column of its first row.
\* Raises IndexError on an empty frame; callers test emptiness first.
Iloc0(year_data, col) == year_data[1][col]

\* Variant of create_pie_chart that keeps the layout of a figure some other
\* run has returned, so that the title is the one that run set.
create_pie_chart_stale(year_data, year) ==
    [labels        |-> categories,
     values        |-> [i \in 1..Len(categories) |-> Iloc0(year_data, categories[i])],
     marker_colors |-> [i \in 1..Len(categories) |-> colors[categories[i]]],
     textinfo      |-> "percent",
     title         |-> LET shown == {t \in Threads : /\ runs[t].pc = "done"
                                                      /\ runs[t].out.kind = "ok"}
                       IN  IF shown # {}
                           THEN runs[CHOOSE t \in shown : TRUE].out.pie_left.title
                           ELSE <<year, "Distribution">>]

\* Variant of create_pie_chart that reads the values in the order of the keys
\* of the colors dict while the labels keep the order of categories.
create_pie_chart_dict_order(year_data, year) ==
    LET dict_order == <<"Near_Normal", "Moderately_Wet", "Extremely_Wet",
                        "Moderate_Drought", "Severe_Drought", "Extreme_Drought">>
    IN  [labels        |-> categories,
         values        |-> [i \in 1..Len(categories) |-> Iloc0(year_data, dict_order[i])],
         marker_colors |-> [i \in 1..Len(categories) |-> colors[categories[i]]],
         textinfo      |-> "percent",
         title         |-> <<year, "Distribution">>]

\* create_pie_chart(year_data, year): the go.Pie trace and the layout title.
create_pie_chart(year_data, year) ==
    [labels        |-> categories,
     values        |-> [i \in 1..Len(categories) |-> Iloc0(year_data, categories[i])],
     marker_colors |-> [i \in 1..Len(categories) |-> colors[categories[i]]],
     textinfo      |-> "percent",
     title         |-> <<year, "Distribution">>]

\* Variant of WhiteText that also counts the royal blue of Moderately_Wet as
\* a dark background.
WhiteText_blue ==
    {"Extreme_Drought", "Severe_Drought", "Extremely_Wet", "Moderately_Wet"}

\* The categories whose card text is white.
WhiteText == {"Extreme_Drought", "Severe_Drought", "Extremely_Wet"}

\* create_metric_card(category, value, side): three child Divs (icon, name,
\* formatted value with its own colour) inside a styled Div.
create_metric_card(category, value, side) ==
    [icon             |-> icons[category],
     name             |-> ReplaceUnderscore(category),
     text             |-> FormatOneDecimal(value),
     value_color      |-> "#333",
     background_color |-> colors[category],
     color            |-> IF category \in WhiteText THEN "white" ELSE "black"]

\* Variant of categories_grid that groups the cards by text colour.
categories_grid_by_colour ==
    <<<<"Extreme_Drought", "Severe_Drought", "Extremely_Wet">>,
      <<"Moderate_Drought", "Moderately_Wet", "Near_Normal">>>>

\* categories_grid (list of lists local to update_dashboard)
categories_grid ==
    <<<<"Extreme_Drought", "Severe_Drought", "Moderate_Drought">>,
      <<"Extremely_Wet", "Moderately_Wet", "Near_Normal">>>>

\* The html.Div of rows of cards built for one side.
MetricsGrid(year_data, side) ==
    [r \in 1..Len(categories_grid) |->
        [k \in 1..Len(categories_grid[r]) |->
            create_metric_card(categories_grid[r][k],
                               Iloc0(year_data, categories_grid[r][k]), side)]]

\* df[df['year'] == year]: the rows with that year, in table order.
RECURSIVE FilterYear(_, _)
FilterYear(table, year) ==
    IF table = <<>> THEN <<>>
    ELSE IF Head(table).year = year
         THEN <<Head(table)>> \o FilterYear(Tail(table), year)
         ELSE FilterYear(Tail(table), year)

\* `not x` for a callback argument: None and 0 are both falsy.
Falsy(x) == x = None \/ x = 0

\* The tail of update_dashboard: both pie charts, both metric grids and the
\* returned tuple.
Render(left_data, right_data, year_left, year_right, map_left_src, map_right_src) ==
    [kind          |-> "ok",
     map_left_src  |-> map_left_src,
     map_right_src |-> map_right_src,
     pie_left      |-> create_pie_chart(left_data, year_left),
     pie_right     |-> create_pie_chart(right_data, year_right),
     metrics_left  |-> MetricsGrid(left_data, "Left"),
     metrics_right |-> MetricsGrid(right_data, "Right")]

\* A run that has ended, with its outcome and the events it performed.
Ended(year_left, year_right, out, events) ==
    [pc |-> "done", year_left |-> year_left, year_right |-> year_right,
     out |-> out, events |-> events]

\* Variant of Start that reads the image cell of both frames before it
\* resolves either image.
Start_lookup_first(year_left, year_right) ==
    IF Falsy(year_left) \/ Falsy(year_right)
    THEN Ended(year_left, year_right, [kind |-> "PreventUpdate"], <<>>)
    ELSE IF FilterYear(df, year_left) = <<>> \/ FilterYear(df, year_right) = <<>>
         THEN Ended(year_left, year_right, [kind |-> "IndexError"], <<>>)
         ELSE [pc |-> "fetch_left", year_left |-> year_left,
               year_right |-> year_right, events |-> <<>>]

\* update_dashboard from its call to its first wait: the guard, the two
\* filters (which never fail) and the left .iloc[0] of line 172, which
\* raises IndexError on an empty frame; otherwise get_image_base64 is
\* entered and the run waits in urlopen for the left image.
Start(year_left, year_right) ==
    IF Falsy(year_left) \/ Falsy(year_right)
    THEN Ended(year_left, year_right, [kind |-> "PreventUpdate"], <<>>)
    ELSE IF FilterYear(df, year_left) = <<>>
         THEN Ended(year_left, year_right, [kind |-> "IndexError"], <<>>)
         ELSE [pc |-> "fetch_left", year_left |-> year_left,
               year_right |-> year_right, events |-> <<>>]

\* update_dashboard from the network's answer `net` to the left fetch to its
\* second wait: get_image_base64 returns the left image, then the right
\* .iloc[0] of line 173 raises IndexError on an empty frame; otherwise
\* get_image_base64 is entered again and the run waits for the right image.
AfterLeft(run, net) ==
    LET left_data  == FilterYear(df, run.year_left)
        right_data == FilterYear(df, run.year_right)
        img_left   == get_image_base64(Iloc0(left_data, "Map Images Left"), net)
    IN  IF right_data = <<>>
        THEN Ended(run.year_left, run.year_right, [kind |-> "IndexError"],
                   run.events \o img_left.events)
        ELSE [pc |-> "fetch_right", year_left |-> run.year_left,
              year_right |-> run.year_right, map_left_src |-> img_left.src,
              events |-> run.events \o img_left.events]

\* update_dashboard from the network's answer `net` to the right fetch to
\* its return: get_image_base64 returns the right image, then lines 176-197.
AfterRight(run, net) ==
    LET left_data  == FilterYear(df, run.year_left)
        right_data == FilterYear(df, run.year_right)
        img_right  == get_image_base64(Iloc0(right_data, "Map Images Left"), net)
    IN  Ended(run.year_left, run.year_right,
              Render(left_data, right_data, run.year_left, run.year_right,
                     run.map_left_src, img_right.src),
              run.events \o img_right.events)

\* ------------------------------------------------------------ the table
\* Row i of main_data.csv.  Its six values (in quarters) rise by i from
\* 2*(i-1) along the column order of the file, so the rows of a table differ
\* in every column, the first row mixes values with one and two decimals,
\* and the second row holds values with one decimal only.
Row(year, i) ==
    [c \in Categories \cup {"year", "Map Images Left"} |->
        CASE c = "year"             -> year
          [] c = "Map Images Left"  -> Urls[((i - 1) % Len(Urls)) + 1]
          [] c = "Near_Normal"      -> 2 * (i - 1)
          [] c = "Moderately_Wet"   -> 2 * (i - 1) + i
          [] c = "Extremely_Wet"    -> 2 * (i - 1) + 2 * i
          [] c = "Moderate_Drought" -> 2 * (i - 1) + 3 * i
          [] c = "Severe_Drought"   -> 2 * (i - 1) + 4 * i
          [] c = "Extreme_Drought"  -> 2 * (i - 1) + 5 * i]

\* df = pd.read_csv('main_data.csv'): any non-empty sequence of rows, the
\* same year allowed on several rows.
Tables ==
    UNION {{[i \in 1..n |-> Row(ys[i], i)] : ys \in [1..n -> YearKeys]} : n \in 1..MaxRows}

\* years = sorted(df['year'].unique()), as a set
years == {df[i].year : i \in 1..Len(df)}

\* A thread that has served no request yet.
Idle == [pc |-> "idle"]

Init ==
    /\ df \in Tables
    /\ runs = [t \in Threads |-> Idle]

\* A request arrives on a thread that holds no run in progress: the callback
\* is called and runs up to its first wait, or to its end.
Call(t, year_left, year_right) ==
    /\ runs[t].pc \in {"idle", "done"}
    /\ runs' = [runs EXCEPT ![t] = Start(year_left, year_right)]
    /\ UNCHANGED df

\* The network answers the left fetch of the run of thread t.
LeftAnswer(t, net) ==
    /\ runs[t].pc = "fetch_left"
    /\ runs' = [runs EXCEPT ![t] = AfterLeft(runs[t], net)]
    /\ UNCHANGED df

\* The network answers the right fetch of the run of thread t.
RightAnswer(t, net) ==
    /\ runs[t].pc = "fetch_right"
    /\ runs' = [runs EXCEPT ![t] = AfterRight(runs[t], net)]
    /\ UNCHANGED df

Next ==
    \E t \in Threads :
        \/ \E year_left, year_right \in YearKeys \cup {None} :
              Call(t, year_left, year_right)
        \/ \E net \in NetOutcomes : LeftAnswer(t, net)
        \/ \E net \in NetOutcomes : RightAnswer(t, net)

Spec == Init /\ [][Next]_vars

\* ====================================================== properties
\* The runs that have ended, and those that returned the six outputs.
Done == {runs[t] : t \in {u \in Threads : runs[u].pc = "done"}}
OkRuns == {r \in Done : r.out.kind = "ok"}

\* Both keys of a run are years of the table.
BothPresent(r) == r.year_left \in years /\ r.year_right \in years

\* The position of the first row of the table with year y.
FirstIndex(y) ==
    CHOOSE i \in 1..Len(df) : df[i].year = y /\ \A j \in 1..(i - 1) : df[j].year # y

IsFetch(e) == e.ev = "fetch"
IsError(e) == e.ev = "error"
Fetches(r) == SelectSeq(r.events, IsFetch)
Errors(r) == SelectSeq(r.events, IsError)

\* The data URI that one fetch attempt with answer `got` must lead to.
SrcOf(got) ==
    IF got = "fail" THEN FallbackImage
    ELSE [mime |-> "image/jpeg", data |-> B64Encode(got)]

RECURSIVE SumSeq(_)
SumSeq(q) == IF q = <<>> THEN 0 ELSE Head(q) + SumSeq(Tail(q))

Abs(n) == IF n < 0 THEN 0 - n ELSE n

\* The six texts of a metrics grid, row by row.
GridTexts(grid) == [k \in 1..6 |-> grid[((k - 1) \div 3) + 1][((k - 1) % 3) + 1].text]

AllCards(grid) == {grid[r][k] : r \in 1..Len(grid), k \in 1..3}

ExpectedLabels ==
    <<"Extreme_Drought", "Severe_Drought", "Moderate_Drought",
      "Extremely_Wet", "Moderately_Wet", "Near_Normal">>

ExpectedGrid ==
    <<<<"Extreme_Drought", "Severe_Drought", "Moderate_Drought">>,
      <<"Extremely_Wet", "Moderately_Wet", "Near_Normal">>>>

\* The two sides of a run that returned the six outputs: the key, the chart,
\* the grid, the image and the position of the side's fetch.
Sides(r) ==
    {[year |-> r.year_left,  pie |-> r.out.pie_left,
      grid |-> r.out.metrics_left,  src |-> r.out.map_left_src,  n |-> 1],
     [year |-> r.year_right, pie |-> r.out.pie_right,
      grid |-> r.out.metrics_right, src |-> r.out.map_right_src, n |-> 2]}

\* ---------------------------------------------------------------- C1
\* C1: a run signals NoUpdate (PreventUpdate) exactly when one of its two
\* keys is absent (None), and with both keys among the table's years,
\* whatever their values, it returns the six outputs.
C1_NoUpdateIffAbsent ==
    \A r \in Done :
        /\ (r.out.kind = "PreventUpdate")
              <=> (r.year_left = None \/ r.year_right = None)
        /\ BothPresent(r) => r.out.kind = "ok"

\* ---------------------------------------------------------------- C2
\* C2: a failed fetch yields the fixed placeholder and does not raise, and
\* so a run with both keys among the table's years always returns the six
\* outputs, both images being the placeholder when both fetches fail.
C2_FallbackAlwaysRenders ==
    \A r \in Done :
        /\ r.out.kind = "ok" => \A sd \in Sides(r) :
              Fetches(r)[sd.n].got = "fail" => sd.src = FallbackImage
        /\ BothPresent(r) => r.out.kind = "ok"

\* ---------------------------------------------------------------- C3
\* C3: a run with two keys that are not None, one of which is no year of
\* the table, ends in the lookup failure (IndexError), never in the six
\* outputs and never in NoUpdate.
C3_MissingYearRaises ==
    \A r \in Done :
        (r.year_left # None /\ r.year_right # None /\ ~BothPresent(r))
            => r.out.kind = "IndexError"

\* ---------------------------------------------------------------- C4
\* C4: the chart of a record has the six labels in the fixed order whatever
\* the record holds, its i-th value is the record's value of the i-th label
\* and its i-th colour is colors at the i-th label.
PieOf(pie, rec) ==
    /\ pie.labels = ExpectedLabels
    /\ DOMAIN pie.values = 1..6
    /\ DOMAIN pie.marker_colors = 1..6
    /\ \A i \in 1..6 :
          /\ pie.values[i] = rec[pie.labels[i]]
          /\ pie.marker_colors[i] = colors[pie.labels[i]]

C4_PieFixedOrder ==
    /\ \A i \in 1..Len(df) : PieOf(create_pie_chart(<<df[i]>>, df[i].year), df[i])
    /\ \A r \in OkRuns : \A sd \in Sides(r) : PieOf(sd.pie, df[FirstIndex(sd.year)])

\* A run drew two charts from two rows with different values.
C4_Witness ==
    \E r \in OkRuns :
        /\ r.year_left # r.year_right
        /\ r.out.pie_left.values # r.out.pie_right.values
        /\ r.out.pie_left.values[1] # r.out.pie_left.values[6]

\* ---------------------------------------------------------------- C5
\* The grid has 2 rows of 3 cards, the card at each place being the card of
\* the category ExpectedGrid names there.
GridLayout(grid) ==
    /\ DOMAIN grid = 1..2
    /\ \A row \in 1..2 :
          /\ DOMAIN grid[row] = 1..3
          /\ \A k \in 1..3 :
                /\ grid[row][k].name = ReplaceUnderscore(ExpectedGrid[row][k])
                /\ grid[row][k].background_color = colors[ExpectedGrid[row][k]]
                /\ grid[row][k].icon = icons[ExpectedGrid[row][k]]

\* C5 as stated: the grid has the fixed 2 x 3 layout, every card carries the
\* record's value of its category (text in tenths, value in quarters), and
\* the grid's values add up to the sum of the six values of the chart.
C5_GridCarriesValues ==
    \A r \in OkRuns : \A sd \in Sides(r) :
        LET rec == df[FirstIndex(sd.year)]
        IN  /\ GridLayout(sd.grid)
            /\ \A row \in 1..2, k \in 1..3 :
                  2 * sd.grid[row][k].text = 5 * rec[ExpectedGrid[row][k]]
            /\ 2 * SumSeq(GridTexts(sd.grid)) = 5 * SumSeq(sd.pie.values)

\* C5 amended: the grid has the fixed 2 x 3 layout, every card carries the
\* record's value of its category rounded to one decimal (off by 0.05 at
\* most), so the grid's sum is within 0.3 of the chart's sum, and equal to it
\* when every value of the record has one decimal at most.
C5_GridCarriesRoundedValues ==
    \A r \in OkRuns : \A sd \in Sides(r) :
        LET rec == df[FirstIndex(sd.year)]
        IN  /\ GridLayout(sd.grid)
            /\ \A row \in 1..2, k \in 1..3 :
                  Abs(5 * rec[ExpectedGrid[row][k]] - 2 * sd.grid[row][k].text) <= 1
            /\ Abs(5 * SumSeq(sd.pie.values) - 2 * SumSeq(GridTexts(sd.grid))) <= 6
            /\ (\A i \in 1..6 : sd.pie.values[i] % 2 = 0)
                  => 2 * SumSeq(GridTexts(sd.grid)) = 5 * SumSeq(sd.pie.values)

\* A run built one grid from a record with a value of two decimals and one
\* from a record whose values have one decimal.
C5_Witness ==
    \E r \in OkRuns :
        /\ \E i \in 1..6 : r.out.pie_left.values[i] % 2 = 1
        /\ \A i \in 1..6 : r.out.pie_right.values[i] % 2 = 0
        /\ SumSeq(r.out.pie_right.values) > 0

\* ---------------------------------------------------------------- C6
WhiteNames == {"Extreme Drought", "Severe Drought", "Extremely Wet"}

RuleColour(card) == IF card.name \in WhiteNames THEN "white" ELSE "black"

\* C6 as stated: the text colour of every card, and of its displayed value,
\* is white for Extreme_Drought, Severe_Drought and Extremely_Wet and black
\* for the other three categories.
C6_AllTextWhiteOrBlack ==
    \A r \in OkRuns : \A sd \in Sides(r) : \A card \in AllCards(sd.grid) :
        /\ card.color = RuleColour(card)
        /\ card.value_color = RuleColour(card)

\* C6 amended: the text colour of every card is white for Extreme_Drought,
\* Severe_Drought and Extremely_Wet and black for the other three; the
\* displayed value has its own colour, #333, on every card.
C6_CardTextWhiteOrBlack ==
    \A r \in OkRuns : \A sd \in Sides(r) : \A card \in AllCards(sd.grid) :
        /\ card.color = RuleColour(card)
        /\ card.value_color = "#333"

\* A run built cards of both text colours, one per category.
C6_Witness ==
    \E r \in OkRuns :
        /\ \E card \in AllCards(r.out.metrics_left) : card.color = "white"
        /\ \E card \in AllCards(r.out.metrics_left) : card.color = "black"
        /\ Cardinality({card.name : card \in AllCards(r.out.metrics_left)}) = 6

\* ---------------------------------------------------------------- C7
\* C7: the record a run uses for a year y of the table is a row whose year
\* is y, the first such row in table order, for the image that is fetched,
\* the six values of the chart and the six values of the grid alike.
C7_FirstMatchingRow ==
    \A r \in OkRuns : \A sd \in Sides(r) :
        LET i == FirstIndex(sd.year)
        IN  /\ sd.year \in years
            /\ df[i].year = sd.year
            /\ Fetches(r)[sd.n].url = df[i]["Map Images Left"]
            /\ \A k \in 1..6 : sd.pie.values[k] = df[i][ExpectedLabels[k]]
            /\ \A row \in 1..2, k \in 1..3 :
                  Abs(5 * df[i][ExpectedGrid[row][k]] - 2 * sd.grid[row][k].text) <= 1

\* A run looked up a year that two rows of the table carry.
C7_Witness ==
    \E r \in OkRuns :
        /\ Len(df) >= 2
        /\ df[1].year = r.year_left
        /\ df[2].year = r.year_left
        /\ df[1]["Map Images Left"] # df[2]["Map Images Left"]

\* ---------------------------------------------------------------- C8
\* C8: two runs with the same two present years return the same two charts
\* and the same two grids, whatever the fetches of either run did and
\* whatever ran between or beside them.
C8_ChartsRepeat ==
    \A a, b \in OkRuns :
        (a.year_left = b.year_left /\ a.year_right = b.year_right)
            => /\ a.out.pie_left = b.out.pie_left
               /\ a.out.pie_right = b.out.pie_right
               /\ a.out.metrics_left = b.out.metrics_left
               /\ a.out.metrics_right = b.out.metrics_right

\* Two runs of the same pair of different years have ended; the left fetch
\* of one failed and the left fetch of the other delivered.
C8_Witness ==
    \E a, b \in OkRuns :
        /\ a.year_left = b.year_left
        /\ a.year_right = b.year_right
        /\ a.year_left # a.year_right
        /\ a.out.map_left_src = FallbackImage
        /\ b.out.map_left_src # FallbackImage

\* ---------------------------------------------------------------- C9
\* C9: a run that returns the six outputs makes exactly two fetch attempts,
\* the left record's image and then the right record's; a failed attempt is
\* followed by its diagnostic and never by another attempt, and each image
\* returned is what the run's own attempt delivered.
C9_OneFetchPerSide ==
    \A r \in OkRuns :
        /\ Len(Fetches(r)) = 2
        /\ Len(r.events) = 2 + Len(Errors(r))
        /\ \A sd \in Sides(r) :
              /\ Fetches(r)[sd.n].url = df[FirstIndex(sd.year)]["Map Images Left"]
              /\ sd.src = SrcOf(Fetches(r)[sd.n].got)
        /\ \A k \in 1..Len(r.events) :
              IsError(r.events[k]) <=>
                  (k > 1 /\ IsFetch(r.events[k - 1]) /\ r.events[k - 1].got = "fail"
                         /\ r.events[k - 1].url = r.events[k].url)

\* A run took the same year on both sides; its first fetch of the image
\* failed and its second fetch of the same image delivered, while another
\* run of that year had ended with the image delivered on both sides.
C9_Witness ==
    \E r, e \in OkRuns :
        /\ r.year_left = r.year_right
        /\ Len(Fetches(r)) = 2
        /\ Fetches(r)[1].url = Fetches(r)[2].url
        /\ Fetches(r)[1].got = "fail"
        /\ r.out.map_left_src = FallbackImage
        /\ r.out.map_right_src # FallbackImage
        /\ e.year_left = r.year_left
        /\ e.out.map_left_src # FallbackImage
        /\ e.out.map_right_src # FallbackImage

\* --------------------------------------------------------------- C10
\* C10 as stated: a run that ends in the lookup failure has fetched no
\* image and emitted no diagnostic.
C10_NoFetchBeforeNotFound ==
    \A r \in Done : r.out.kind = "IndexError" => r.events = <<>>

\* C10 amended: a run that ends in the lookup failure because its left year
\* is missing has fetched nothing and emitted nothing; one whose left year is
\* present and whose right year is missing has made exactly one fetch, of
\* the left record's image, with its diagnostic if that fetch failed.
C10_LeftFetchBeforeRightNotFound ==
    \A r \in Done : r.out.kind = "IndexError" =>
        IF r.year_left \notin years
        THEN r.events = <<>>
        ELSE /\ r.year_right \notin years
             /\ Len(Fetches(r)) = 1
             /\ Fetches(r)[1].url = df[FirstIndex(r.year_left)]["Map Images Left"]
             /\ Len(r.events) = IF Fetches(r)[1].got = "fail" THEN 2 ELSE 1
             /\ Len(r.events) = 2 => IsError(r.events[2])

\* A run failed on its right year after a failed fetch of the left image.
C10_Witness ==
    \E r \in Done :
        /\ r.out.kind = "IndexError"
        /\ r.year_left \in years
        /\ r.year_right \notin years
        /\ Len(Errors(r)) = 1
====
